---- MODULE Spec2Model ----
(***************************************************************************)
(* CheXpert_Full (src/src/datasets/chest_xray/chexpert_full.py): the       *)
(* layout resolver (find_data), the index builder (build_index) and the    *)
(* sample materializer (__getitem__), over a small file system: the        *)
(* dataset root, the extracted directory, the archive, the split           *)
(* manifests and the image files.                                          *)
(*                                                                         *)
(* numpy arrays are records [shape, data] with data in row-major order;    *)
(* an image tensor is the file it was read from and its shape (pixel       *)
(* values are not modelled: Normalize is an affine map that keeps shape).  *)
(* Label values are integers (the manifests hold integral codes, on which  *)
(* the float parse and the cast .long() keep the value).                   *)
(***************************************************************************)
EXTENDS Integers, Sequences, FiniteSets, TLC

VARIABLES
    fs,        \* [root, dir, zip]: which of <root>, <root>/CheXpert-v1.0, <root>/CheXpert-v1.0.zip exist
    archive,   \* what the archive holds: "dataset", "other" (no CheXpert-v1.0 at its top) or "corrupt"
    csv,       \* [split -> rows]: the data rows of <dir>/<split>.csv (header skipped)
    imgSize,   \* <<height, width>> of the image files
    tensor,    \* <<height, width>> of a transformed image handed to the padding step alone, or <<0, 0>>
    calls,     \* one record per CheXpert_Full(...) call: what it saw, did and built
    last,      \* the last length()/getItem() call and its result
    pinned     \* a getItem() call and its result, kept by the caller

vars == <<fs, archive, csv, imgSize, tensor, calls, last, pinned>>

-----------------------------------------------------------------------------
(* Bounds of the model                                                     *)
MaxRows == 2          \* data rows per manifest
MaxConstructs == 2    \* constructor calls per behaviour
SmallSide == 8        \* image sides 1..SmallSide
BigSide == 225        \* image sides (INPUT_SIZE - 1)..BigSide
MaxTensorSide == 224  \* sides of the tensors handed to the padding step alone

-----------------------------------------------------------------------------
(* Class constants                                                         *)
LABELS_COL == 5
NUM_CLASSES == 14
INPUT_SIZE == 224
IN_CHANNELS == 1

CHEXPERT_LABELS ==
    ("No Finding" :> 0) @@ ("Enlarged Cardiomediastinum" :> 1) @@
    ("Cardiomegaly" :> 2) @@ ("Lung Opacity" :> 3) @@ ("Lung Lesion" :> 4) @@
    ("Edema" :> 5) @@ ("Consolidation" :> 6) @@ ("Pneumonia" :> 7) @@
    ("Atelectasis" :> 8) @@ ("Pneumothorax" :> 9) @@ ("Pleural Effusion" :> 10) @@
    ("Pleural Other" :> 11) @@ ("Fracture" :> 12) @@ ("Support Devices" :> 13)

\* A slip of the table: 'No Finding' selected into slot 0.
CHEXPERT_LABELS_IDX_NoFinding ==
    << CHEXPERT_LABELS["No Finding"], CHEXPERT_LABELS["Enlarged Cardiomediastinum"],
       CHEXPERT_LABELS["Cardiomegaly"], CHEXPERT_LABELS["Lung Opacity"],
       CHEXPERT_LABELS["Lung Lesion"], CHEXPERT_LABELS["Edema"],
       CHEXPERT_LABELS["Consolidation"], CHEXPERT_LABELS["Pneumonia"],
       CHEXPERT_LABELS["Atelectasis"], CHEXPERT_LABELS["Pneumothorax"],
       CHEXPERT_LABELS["Pleural Effusion"], CHEXPERT_LABELS["Pleural Other"],
       CHEXPERT_LABELS["Fracture"], CHEXPERT_LABELS["Support Devices"] >>

\* Slot i of the returned label (0-based) is element i+1.
CHEXPERT_LABELS_IDX ==
    << CHEXPERT_LABELS["Atelectasis"], CHEXPERT_LABELS["Enlarged Cardiomediastinum"],
       CHEXPERT_LABELS["Cardiomegaly"], CHEXPERT_LABELS["Lung Opacity"],
       CHEXPERT_LABELS["Lung Lesion"], CHEXPERT_LABELS["Edema"],
       CHEXPERT_LABELS["Consolidation"], CHEXPERT_LABELS["Pneumonia"],
       CHEXPERT_LABELS["Atelectasis"], CHEXPERT_LABELS["Pneumothorax"],
       CHEXPERT_LABELS["Pleural Effusion"], CHEXPERT_LABELS["Pleural Other"],
       CHEXPERT_LABELS["Fracture"], CHEXPERT_LABELS["Support Devices"] >>

DirName == "CheXpert-v1.0"
ZipName == "CheXpert-v1.0.zip"
Splits == {"train", "valid"}

-----------------------------------------------------------------------------
(* numpy                                                                   *)

RECURSIVE Prod(_)
Prod(s) == IF s = <<>> THEN 1 ELSE Head(s) * Prod(Tail(s))

\* np.squeeze on a shape: the axes of length 1 are dropped.
Squeeze(shape) == SelectSeq(shape, LAMBDA n : n # 1)

NdArray(shape, data) == [shape |-> shape, data |-> data]

IndexError == [ok |-> FALSE, val |-> NdArray(<<>>, <<>>)]

\* An index check that forgets that negative indices count from the end.
ArrayIndex_NoWrap(a, i) ==
    IF a.shape = <<>> THEN IndexError
    ELSE LET n == Head(a.shape)
             stride == Prod(Tail(a.shape))
         IN  IF i < 0 \/ i >= n THEN IndexError
             ELSE [ok |-> TRUE,
                   val |-> NdArray(Tail(a.shape),
                                   SubSeq(a.data, i * stride + 1, (i + 1) * stride))]

\* a[i] for an integer i: a 0-d array cannot be indexed; -n <= i < n, a
\* negative i counting from the end; the result drops the first axis.
ArrayIndex(a, i) ==
    IF a.shape = <<>> THEN IndexError
    ELSE LET n == Head(a.shape)
             stride == Prod(Tail(a.shape))
             j == IF i < 0 THEN i + n ELSE i
         IN  IF i < -n \/ i >= n THEN IndexError
             ELSE [ok |-> TRUE,
                   val |-> NdArray(Tail(a.shape),
                                   SubSeq(a.data, j * stride + 1, (j + 1) * stride))]

\* a[idx] for an integer array idx over the first axis of a 1-d array a.
ArrayTake(a, idx) ==
    IF a.shape = <<>> THEN IndexError
    ELSE LET n == Head(a.shape)
         IN  IF \E k \in 1..Len(idx) : idx[k] < -n \/ idx[k] >= n THEN IndexError
             ELSE [ok |-> TRUE,
                   val |-> NdArray(<<Len(idx)>>,
                                   [k \in 1..Len(idx) |->
                                       ArrayIndex(a, idx[k]).val.data[1]])]

\* float(s) of a manifest cell.
ParseFloat(s) ==
    CASE s = "-2" -> -2
      [] s = "-1" -> -1
      [] s = "0" -> 0
      [] s = "1" -> 1
      [] s = "2" -> 2

\* np.loadtxt(index_file, dtype=str, delimiter=',', skiprows=1, usecols=0):
\* the N x 1 block of column 0, squeezed (ndmin=0).
loadtxt(rows) ==
    NdArray(Squeeze(<<Len(rows), 1>>), [i \in 1..Len(rows) |-> rows[i][1]])

\* np.genfromtxt(index_file, dtype=float, delimiter=',', skip_header=1,
\*               usecols=..., missing_values='', filling_values=0):
\* usecols are 0-based columns; an empty cell is filled with 0; the result
\* is squeezed; a file without data rows gives an empty 1-d array.
genfromtxt(rows, usecols) ==
    LET cell(i, k) == rows[i][usecols[k] + 1]
        value(i, k) == IF cell(i, k) = "" THEN 0 ELSE ParseFloat(cell(i, k))
        ncols == Len(usecols)
    IN  IF Len(rows) = 0 THEN NdArray(<<0>>, <<>>)
        ELSE NdArray(Squeeze(<<Len(rows), ncols>>),
                     [x \in 1..(Len(rows) * ncols) |->
                         value(((x - 1) \div ncols) + 1, ((x - 1) % ncols) + 1)])

\* The 'uncertain as positive' policy in place of the clamp: -1 becomes 1.
maximum_UOnes(a, v) ==
    NdArray(a.shape, [x \in 1..Len(a.data) |-> IF a.data[x] > v THEN a.data[x] ELSE -a.data[x]])

\* np.maximum(a, v), elementwise.
maximum(a, v) ==
    NdArray(a.shape, [x \in 1..Len(a.data) |-> IF a.data[x] > v THEN a.data[x] ELSE v])

-----------------------------------------------------------------------------
(* The file system under self.root                                         *)

exists(f, name) == IF name = DirName THEN f.dir ELSE f.zip

\* 'all' in place of 'any'.
any_exist_All(f, files) == \A i \in 1..Len(files) : exists(f, files[i])

any_exist(f, files) == \E i \in 1..Len(files) : exists(f, files[i])

\* torchvision's extract_archive(zip): the members are written beside the
\* archive, and the archive stays (remove_finished=False).
extract_archive(f, arch) == IF arch = "dataset" THEN [f EXCEPT !.dir = TRUE] ELSE f

FindResult(err, path, extracted, f) ==
    [err |-> err, path |-> path, extracted |-> extracted, fs |-> f]

\* A resolver that extracts whenever the archive is there.
find_data_ExtractAlways(f, arch) ==
    LET f1 == [f EXCEPT !.root = TRUE]
        components == <<DirName, ZipName>>
        extract == exists(f1, components[2])
        f2 == IF extract THEN extract_archive(f1, arch) ELSE f1
    IN  IF ~any_exist(f1, components) THEN FindResult("RuntimeError", "", FALSE, f1)
        ELSE IF extract /\ arch = "corrupt" THEN FindResult("BadZipFile", "", TRUE, f1)
        ELSE IF exists(f2, components[1]) THEN FindResult("none", components[1], extract, f2)
        ELSE IF exists(f2, components[2]) THEN FindResult("none", components[2], extract, f2)
        ELSE FindResult("FileNotFoundError", "", extract, f2)

\* find_data: makedirs(root); RuntimeError when neither component exists;
\* extraction when the directory is absent and the archive present (a
\* corrupt archive makes extract_archive raise); then the first component
\* that exists, the directory before the archive.
find_data(f, arch) ==
    LET f1 == [f EXCEPT !.root = TRUE]
        components == <<DirName, ZipName>>
        extract == ~any_exist(f1, SubSeq(components, 1, 1)) /\ exists(f1, components[2])
        f2 == IF extract THEN extract_archive(f1, arch) ELSE f1
    IN  IF ~any_exist(f1, components) THEN FindResult("RuntimeError", "", FALSE, f1)
        ELSE IF extract /\ arch = "corrupt" THEN FindResult("BadZipFile", "", TRUE, f1)
        ELSE IF exists(f2, components[1]) THEN FindResult("none", components[1], extract, f2)
        ELSE IF exists(f2, components[2]) THEN FindResult("none", components[2], extract, f2)
        ELSE FindResult("FileNotFoundError", "", extract, f2)

-----------------------------------------------------------------------------
(* The dataset object                                                      *)

NoArray == NdArray(<<0>>, <<>>)

Dataset(loc, split, fnames, labels) ==
    [index_location |-> loc, split |-> split, fnames |-> fnames, labels |-> labels]

NoDataset == Dataset("", "", NoArray, NoArray)

\* build_index: <index_location>/<split>.csv is read twice, column 0 as
\* the file names and columns [LABELS_COL, LABELS_COL + 14) as the labels,
\* which are then clamped at 0. With the archive as index_location the file
\* cannot be opened.
build_index(loc, split, manifest) ==
    LET end_col == LABELS_COL + Cardinality(DOMAIN CHEXPERT_LABELS)
        usecols == [k \in 1..(end_col - LABELS_COL) |-> LABELS_COL + k - 1]
    IN  IF loc # DirName THEN [err |-> "OSError", ds |-> NoDataset]
        ELSE [err |-> "none",
              ds |-> Dataset(loc, split, loadtxt(manifest[split]),
                             maximum(genfromtxt(manifest[split], usecols), 0))]

\* __init__(base_root, download, train): find_data, then build_index. The
\* record keeps what the call saw and did; ds is the object, when built.
init(f, arch, manifest, train) ==
    LET found == find_data(f, arch)
        split == IF train THEN "train" ELSE "valid"
        built == IF found.err = "none" THEN build_index(found.path, split, manifest)
                 ELSE [err |-> found.err, ds |-> NoDataset]
    IN  [train |-> train, before |-> f, after |-> found.fs,
         extracted |-> found.extracted, found |-> found.path,
         find_err |-> found.err, err |-> built.err, ds |-> built.ds]

\* __len__
len(d) ==
    IF d.fnames.shape = <<>> THEN [op |-> "len", outcome |-> "IndexError", value |-> 0]
    ELSE [op |-> "len", outcome |-> "ok", value |-> Head(d.fnames.shape)]

-----------------------------------------------------------------------------
(* The sample materializer                                                 *)

Min(a, b) == IF a <= b THEN a ELSE b
Max(a, b) == IF a >= b THEN a ELSE b

\* transforms.Resize(size, max_size=max_size), as torchvision computes the
\* output size for a single-number size, on an image of height h and
\* width w: the shorter side becomes size and the longer one
\* int(size * long / short); a longer side over max_size becomes max_size
\* and the shorter one int(max_size * size / longer). The result is
\* <<new_h, new_w>>.
Resize(size, max_size, h, w) ==
    LET short == Min(h, w)
        long == Max(h, w)
        requested_long == (size * long) \div short
        new_short == IF requested_long > max_size
                     THEN (max_size * size) \div requested_long ELSE size
        new_long == IF requested_long > max_size THEN max_size ELSE requested_long
    IN  IF w <= h THEN <<new_long, new_short>> ELSE <<new_short, new_long>>

\* transforms.Pad((left, top, right, bottom)) on a tensor of shape [c, h, w].
Pad(padding, shape) ==
    <<shape[1], padding[2] + shape[2] + padding[4], padding[1] + shape[3] + padding[3]>>

\* A split that gives both sides the floor half of the gap.
Padding_FloorBoth(h, w) ==
    IF h > w THEN LET dim_gap == h - w IN <<dim_gap \div 2, 0, dim_gap \div 2, 0>>
    ELSE IF h = w THEN LET dim_gap == INPUT_SIZE - h IN <<dim_gap, dim_gap, 0, 0>>
    ELSE LET dim_gap == w - h IN <<0, dim_gap \div 2, 0, dim_gap \div 2>>

\* The (left, top, right, bottom) padding __getitem__ chooses for a resized
\* tensor of height h and width w.
Padding(h, w) ==
    IF h > w THEN
        LET dim_gap == h - w
            pad1 == dim_gap \div 2
            pad2 == (dim_gap + (dim_gap % 2)) \div 2
        IN  <<pad1, 0, pad2, 0>>
    ELSE IF h = w THEN
        LET dim_gap == INPUT_SIZE - h
            pad1 == dim_gap
            pad2 == dim_gap
        IN  <<pad1, pad2, 0, 0>>
    ELSE
        LET dim_gap == w - h
            pad1 == dim_gap \div 2
            pad2 == (dim_gap + (dim_gap % 2)) \div 2
        IN  <<0, pad1, 0, pad2>>

Raised(err, index) ==
    [op |-> "getitem", outcome |-> err, index |-> index, file |-> <<>>,
     resized |-> <<0, 0>>, pad |-> <<0, 0, 0, 0>>, shape |-> <<0, 0, 0>>, label |-> <<>>]

\* __getitem__(index) on the object d, the image files being of size
\* size = <<height, width>>. PIL refuses to resize to an empty image.
getitem(d, index, size) ==
    LET fname == ArrayIndex(d.fnames, index)
        hw == Resize(INPUT_SIZE - 1, INPUT_SIZE, size[1], size[2])
        h == hw[1]
        w == hw[2]
        pad == Padding(h, w)
        row == ArrayIndex(d.labels, index)
        label == IF row.ok THEN ArrayTake(row.val, CHEXPERT_LABELS_IDX) ELSE IndexError
    IN  IF ~fname.ok THEN Raised("IndexError", index)
        ELSE IF h < 1 \/ w < 1 THEN Raised("ValueError", index)
        ELSE IF ~label.ok THEN Raised("IndexError", index)
        ELSE [op |-> "getitem", outcome |-> "ok", index |-> index,
              file |-> fname.val.data[1], resized |-> hw, pad |-> pad,
              shape |-> Pad(pad, <<IN_CHANNELS, h, w>>), label |-> label.val.data]

\* A materializer that writes the selected labels back into the index.
self_after_getitem_WriteBack(d, index) ==
    LET row == ArrayIndex(d.labels, index)
        n == Len(CHEXPERT_LABELS_IDX)
        j == IF index < 0 THEN index + Head(d.labels.shape) ELSE index
    IN  IF ~ArrayIndex(d.fnames, index).ok \/ ~row.ok \/ row.val.shape = <<>> THEN d
        ELSE [d EXCEPT !.labels.data =
                 [x \in 1..Len(@) |->
                     IF (x - 1) \div n = j
                     THEN row.val.data[CHEXPERT_LABELS_IDX[((x - 1) % n) + 1] + 1]
                     ELSE @[x]]]

\* The object after __getitem__(index): no attribute is assigned.
self_after_getitem(d, index) == d

-----------------------------------------------------------------------------
(* The environments                                                        *)

NumCols == LABELS_COL + NUM_CLASSES
Cells == {"", "-2", "-1", "0", "1", "2"}

\* The manifest's path of row i of a split.
Path(split, i) == <<DirName, split, i>>

\* A manifest row: the path, four columns of patient data, 14 label cells,
\* of which label column k holds v and the others hold u.
Row(split, i, k, v, u) ==
    [c \in 1..NumCols |->
        IF c = 1 THEN Path(split, i)
        ELSE IF c <= LABELS_COL THEN "Frontal"
        ELSE IF c - LABELS_COL - 1 = k THEN v ELSE u]

\* n rows, row i with v in label column (k + i - 1) mod 14.
Manifest(split, n, k, v, u) ==
    [i \in 1..n |-> Row(split, i, (k + i - 1) % NUM_CLASSES, v, u)]

\* The plain manifests: row i is positive in one column, and 'uncertain' or
\* blank in the others.
PlainManifest(split, n) ==
    [i \in 1..n |->
        Row(split, i, (IF split = "train" THEN 7 + i ELSE i - 1) % NUM_CLASSES, "1",
            IF i % 2 = 1 THEN "-1" ELSE "")]

FsStates ==
    {f \in [root : BOOLEAN, dir : BOOLEAN, zip : BOOLEAN] : (f.dir \/ f.zip) => f.root}

Extracted == [root |-> TRUE, dir |-> TRUE, zip |-> FALSE]

Sides == (1..SmallSide) \cup ((INPUT_SIZE - 1)..BigSide)

NoCall == [op |-> "none"]

-----------------------------------------------------------------------------
(* The operations                                                          *)

Construct(train) ==
    /\ Len(calls) < MaxConstructs
    /\ LET c == init(fs, archive, csv, train)
       IN  /\ fs' = c.after
           /\ calls' = Append(calls, c)
    /\ UNCHANGED <<archive, csv, imgSize, tensor, last, pinned>>

Built(o) == o \in 1..Len(calls) /\ calls[o].err = "none"

Length(o) ==
    /\ Built(o)
    /\ last' = [obj |-> o, res |-> len(calls[o].ds)]
    /\ UNCHANGED <<fs, archive, csv, imgSize, tensor, calls, pinned>>

GetItem(o, index) ==
    /\ Built(o)
    /\ last' = [obj |-> o, res |-> getitem(calls[o].ds, index, imgSize)]
    /\ calls' = [calls EXCEPT ![o].ds = self_after_getitem(@, index)]
    /\ UNCHANGED <<fs, archive, csv, imgSize, tensor, pinned>>

\* The padding step of __getitem__ alone, on a transformed image of shape
\* [IN_CHANNELS, tensor[1], tensor[2]].
PadTensor ==
    /\ tensor # <<0, 0>>
    /\ last.res.op = "none"
    /\ LET pad == Padding(tensor[1], tensor[2])
       IN  last' = [obj |-> 0,
                    res |-> [op |-> "pad", outcome |-> "ok", resized |-> tensor, pad |-> pad,
                             shape |-> Pad(pad, <<IN_CHANNELS, tensor[1], tensor[2]>>)]]
    /\ UNCHANGED <<fs, archive, csv, imgSize, tensor, calls, pinned>>

\* The caller keeps the sample it has just been given.
Keep ==
    /\ pinned = NoCall
    /\ last.obj # 0
    /\ last.res.op = "getitem"
    /\ pinned' = last
    /\ UNCHANGED <<fs, archive, csv, imgSize, tensor, calls, last>>

Positions == (-(MaxRows + 1))..MaxRows

\* One object: CheXpert_Full(base_root) once, then accesses.
NextOne ==
    \/ calls = <<>> /\ Construct(TRUE)
    \/ \E o \in 1..Len(calls) : Length(o)
    \/ \E o \in 1..Len(calls) : \E index \in Positions : GetItem(o, index)
    \/ Keep

Next ==
    \/ \E train \in BOOLEAN : Construct(train)
    \/ \E o \in 1..Len(calls) : Length(o)
    \/ \E o \in 1..Len(calls) : \E index \in Positions : GetItem(o, index)

\* The life of a dataset root: any file system, any archive, plain
\* manifests, images of one size.
Init ==
    /\ fs \in FsStates
    /\ archive \in (IF fs.zip THEN {"dataset", "other", "corrupt"} ELSE {"dataset"})
    /\ csv \in {[s \in Splits |-> PlainManifest(s, n[s])] : n \in [Splits -> 0..MaxRows]}
    /\ imgSize = <<2, 3>>
    /\ tensor = <<0, 0>>
    /\ calls = <<>>
    /\ last = [obj |-> 0, res |-> NoCall]
    /\ pinned = NoCall

Spec == Init /\ [][Next]_vars

\* One object on an extracted root: every manifest of the family Manifest,
\* images of one size.
InitLabels ==
    /\ fs = Extracted
    /\ archive = "dataset"
    /\ csv \in {[s \in Splits |-> IF s = "train" THEN Manifest(s, n, k, v, u)
                                  ELSE PlainManifest(s, 0)] :
                   n \in 0..MaxRows, k \in 0..(NUM_CLASSES - 1), v \in Cells, u \in Cells}
    /\ imgSize = <<2, 3>>
    /\ tensor = <<0, 0>>
    /\ calls = <<>>
    /\ last = [obj |-> 0, res |-> NoCall]
    /\ pinned = NoCall

SpecLabels == InitLabels /\ [][NextOne]_vars

\* One object on an extracted root: a plain manifest, images of every size
\* over Sides.
InitImage ==
    /\ fs = Extracted
    /\ archive = "dataset"
    /\ csv = [s \in Splits |-> PlainManifest(s, MaxRows)]
    /\ imgSize \in Sides \X Sides
    /\ tensor = <<0, 0>>
    /\ calls = <<>>
    /\ last = [obj |-> 0, res |-> NoCall]
    /\ pinned = NoCall

SpecImage == InitImage /\ [][NextOne]_vars

\* The padding step: on the images of InitImage through one object, and
\* alone on every tensor shape up to MaxTensorSide.
InitPad ==
    \/ InitImage
    \/ /\ fs = Extracted
       /\ archive = "dataset"
       /\ csv = [s \in Splits |-> PlainManifest(s, MaxRows)]
       /\ imgSize = <<2, 3>>
       /\ tensor \in (1..MaxTensorSide) \X (1..MaxTensorSide)
       /\ calls = <<>>
       /\ last = [obj |-> 0, res |-> NoCall]
       /\ pinned = NoCall

NextPad ==
    \/ tensor = <<0, 0>> /\ NextOne
    \/ PadTensor

SpecPad == InitPad /\ [][NextPad]_vars

-----------------------------------------------------------------------------
(* The claims                                                              *)

\* The raw manifest rows an object was built from.
RowsOf(o) == csv[calls[o].ds.split]

\* The numeric reading of a label cell that is not blank.
CellValue(cell) == ParseFloat(cell)

\* The last call was getItem(p) on an object whose length() is L, 0 <= p < L.
LastGetItem == last.obj # 0 /\ last.res.op = "getitem"
LastLength == len(calls[last.obj].ds)
LastValid ==
    /\ LastGetItem
    /\ LastLength.outcome = "ok"
    /\ 0 <= last.res.index /\ last.res.index < LastLength.value

\* C1 (as claimed): for every position p with 0 <= p < length(), every
\* image size and every label row over {-1, 0, 1, blank}, getItem(p)
\* returns an image of shape [1, 224, 224] and 14 labels, each 0 or 1.
C1_SampleShape ==
    (/\ LastValid
     /\ \A r \in 1..Len(RowsOf(last.obj)) : \A c \in 6..19 :
            RowsOf(last.obj)[r][c] \in {"-1", "0", "1", ""})
    => /\ last.res.outcome = "ok"
       /\ last.res.shape = <<1, 224, 224>>
       /\ Len(last.res.label) = 14
       /\ \A i \in 1..14 : last.res.label[i] \in {0, 1}

\* C2: every stored label is 0 for a blank cell, 0 for a negative cell and
\* the cell's value otherwise, for each of the 14 cells in columns [5, 19)
\* of every manifest row; no stored label is negative.
C2_ImputeClamp ==
    \A o \in 1..Len(calls) : Built(o) =>
        LET rows == RowsOf(o)
            stored == calls[o].ds.labels.data
        IN  /\ Len(stored) = 14 * Len(rows)
            /\ \A r \in 1..Len(rows) : \A k \in 0..13 :
                  LET cell == rows[r][5 + k + 1]
                      lab == stored[14 * (r - 1) + k + 1]
                  IN  /\ lab >= 0
                      /\ lab = IF cell = "" THEN 0
                               ELSE IF CellValue(cell) < 0 THEN 0
                               ELSE CellValue(cell)

\* C2's case: an index built from a row with a blank and an 'uncertain'
\* cell.
C2_Witness ==
    \E o \in 1..Len(calls) :
        /\ Built(o)
        /\ \E r \in 1..Len(RowsOf(o)) : \E a, b \in 0..13 :
              /\ RowsOf(o)[r][6 + a] = ""
              /\ RowsOf(o)[r][6 + b] = "-1"
              /\ calls[o].ds.labels.data[14 * (r - 1) + a + 1] = 0
              /\ calls[o].ds.labels.data[14 * (r - 1) + b + 1] = 0

\* C3: for a valid position p, slot i of the returned label is column
\* IDX[i] of the stored row p (and so of the raw row p), with
\* IDX = [8, 1, 2, ..., 13]: slots 0 and 8 agree, and raw column 0 is read
\* by no slot.
C3_LabelSelection ==
    (LastValid /\ last.res.outcome = "ok") =>
        LET IDX == <<8, 1, 2, 3, 4, 5, 6, 7, 8, 9, 10, 11, 12, 13>>
            p == last.res.index
            stored == calls[last.obj].ds.labels.data
            raw == RowsOf(last.obj)[p + 1]
            kept(cell) == IF cell = "" \/ CellValue(cell) < 0 THEN 0 ELSE CellValue(cell)
        IN  /\ Len(last.res.label) = 14
            /\ \A i \in 0..13 :
                  /\ last.res.label[i + 1] = stored[14 * p + IDX[i + 1] + 1]
                  /\ last.res.label[i + 1] = kept(raw[5 + IDX[i + 1] + 1])
                  /\ IDX[i + 1] # 0
            /\ last.res.label[1] = last.res.label[9]

\* C3's case: a sample whose raw 'No Finding' and 'Atelectasis' cells differ.
C3_Witness ==
    /\ LastValid
    /\ last.res.outcome = "ok"
    /\ RowsOf(last.obj)[last.res.index + 1][6] = "1"
    /\ RowsOf(last.obj)[last.res.index + 1][14] = "0"
    /\ last.res.label[1] = 0
    /\ last.res.label[9] = 0

\* C4 (as claimed): for every p outside [0, length()), getItem(p) fails
\* with an index error.
C4_OutOfRangeRaises ==
    (/\ LastGetItem
     /\ LastLength.outcome = "ok"
     /\ (last.res.index < 0 \/ last.res.index >= LastLength.value))
    => last.res.outcome = "IndexError"

\* C4 (amended): with L = length(), getItem(p) fails with an index error
\* for p >= L and for p < -L; for -L <= p < 0 it does what getItem(p + L)
\* does, the returned index being p.
C4_IndexSemantics ==
    (LastGetItem /\ LastLength.outcome = "ok") =>
        LET L == LastLength.value
            p == last.res.index
            d == calls[last.obj].ds
        IN  /\ (p >= L \/ p < -L) => last.res.outcome = "IndexError"
            /\ (-L <= p /\ p < 0) =>
                  /\ last.res.outcome # "IndexError"
                  /\ last.res = [getitem(d, p + L, imgSize) EXCEPT !.index = p]
                  /\ last.res.file = RowsOf(last.obj)[p + L + 1][1]

\* C4's case: getItem(-1) has returned the last row's sample.
C4_Witness ==
    /\ LastGetItem
    /\ LastLength.outcome = "ok"
    /\ LastLength.value = 2
    /\ last.res.index = -1
    /\ last.res.outcome = "ok"
    /\ last.res.file = RowsOf(last.obj)[2][1]

\* C5 (as claimed): a find_data that found the archive without the
\* directory, and whose extraction left no directory, fails with an
\* extraction error: it returns no path, and the error is not the
\* data-not-found one.
C5_ExtractionFailureRaises ==
    \A i \in 1..Len(calls) :
        (~calls[i].before.dir /\ calls[i].before.zip /\ ~calls[i].after.dir) =>
            /\ calls[i].find_err \notin {"none", "RuntimeError"}
            /\ calls[i].found = ""

\* C6: a construct() on a root with the archive and no directory extracts;
\* every later construct() that finds the directory extracts nothing,
\* resolves to the same directory and, for the same split, builds the same
\* index.
C6_ExtractOnce ==
    \A i \in 1..Len(calls) :
        (~calls[i].before.dir /\ calls[i].before.zip) =>
            /\ calls[i].extracted
            /\ \A j \in (i + 1)..Len(calls) :
                  calls[j].before.dir =>
                      /\ ~calls[j].extracted
                      /\ calls[j].find_err = "none"
                      /\ calls[j].found = "CheXpert-v1.0"
                      /\ calls[j].found = calls[i].found
                      /\ calls[j].train = calls[i].train =>
                            /\ calls[i].err = "none"
                            /\ calls[j].err = "none"
                            /\ calls[j].ds.fnames = calls[i].ds.fnames
                            /\ calls[j].ds.labels = calls[i].ds.labels

\* C6's case: two construct() of the same split, the first one extracting.
C6_Witness ==
    /\ Len(calls) >= 2
    /\ ~calls[1].before.dir
    /\ calls[1].extracted
    /\ calls[2].before.dir
    /\ ~calls[2].extracted
    /\ calls[2].train = calls[1].train
    /\ calls[2].err = "none"
    /\ Len(calls[2].ds.fnames.data) = 2
    /\ calls[2].ds = calls[1].ds

\* C7: without directory and archive, find_data fails with the
\* data-not-found error, extracts nothing and no index is built; with the
\* directory, it returns the directory, archive or not.
C7_FindData ==
    \A i \in 1..Len(calls) :
        /\ (~calls[i].before.dir /\ ~calls[i].before.zip) =>
              /\ calls[i].find_err = "RuntimeError"
              /\ calls[i].found = ""
              /\ ~calls[i].extracted
              /\ ~calls[i].after.dir
              /\ calls[i].err = "RuntimeError"
              /\ calls[i].ds = NoDataset
        /\ calls[i].before.dir =>
              /\ calls[i].find_err = "none"
              /\ calls[i].found = "CheXpert-v1.0"

\* C7's case: a construct() on a root without directory and archive.
C7_Witness ==
    \E i \in 1..Len(calls) :
        /\ ~calls[i].before.dir
        /\ ~calls[i].before.zip
        /\ calls[i].find_err = "RuntimeError"

\* C8 (as claimed): an index built from N data rows has length() = N, its
\* paths are column 0 in row order, and its labels are N rows of 14.
C8_IndexMatchesManifest ==
    \A o \in 1..Len(calls) : Built(o) =>
        LET rows == RowsOf(o)
            N == Len(rows)
            d == calls[o].ds
        IN  /\ len(d).outcome = "ok"
            /\ len(d).value = N
            /\ d.fnames.shape = <<N>>
            /\ d.fnames.data = [i \in 1..N |-> rows[i][1]]
            /\ N > 0 => d.labels.shape = <<N, 14>>
            /\ Len(d.labels.data) = 14 * N

C10_PaddingLaw ==
    (last.res.op \in {"getitem", "pad"} /\ last.res.outcome = "ok") =>
        LET h == last.res.resized[1]
            w == last.res.resized[2]
        IN  /\ h > w => last.res.pad = <<(h - w) \div 2, 0, (h - w) - ((h - w) \div 2), 0>>
            /\ h < w => last.res.pad = <<0, (w - h) \div 2, 0, (w - h) - ((w - h) \div 2)>>
            /\ h = w => last.res.pad = <<224 - h, 224 - h, 0, 0>>

\* C10's case: height 201 and width 150 padded left 25 and right 26.
C10_Witness ==
    /\ last.res.op = "pad"
    /\ last.res.resized = <<201, 150>>
    /\ last.res.pad = <<25, 0, 26, 0>>

====
